---- MODULE Spec2Model ----
(***************************************************************************)
(* Acad Service (acad-service/main.py): the two read endpoints             *)
(* get_mahasiswas and get_ips, the per-request connection scope            *)
(* get_db_connection, and the IPS computation.                             *)
(*                                                                         *)
(* Representation.  A grade token is a sequence of one-character strings.  *)
(* Every float the code holds (bobot, total_bobot, bobot_x_sks, ips) is    *)
(* written as an integer number of hundredths: 3.75 is 375.  Every weight  *)
(* is a multiple of 0.25, so each product and each running sum is exact in *)
(* binary floating point; the only inexact float is the quotient           *)
(* total_bobot / total_sks, whose rounding Round2Div models.               *)
(***************************************************************************)
EXTENDS Integers, Sequences, FiniteSets, TLC

(* ------------------------------ bounds --------------------------------- *)
\* longest row sequence a fetch returns in the request model
MaxRows == 2
\* largest credit-hour value of a row
MaxSks == 4
\* most whitespace characters padded on one side of a token (pair model)
MaxPad == 1
\* longest row sequence of the pair model
MaxPairRows == 1

(* --------------------------- small helpers ----------------------------- *)
Abs(x) == IF x < 0 THEN 0 - x ELSE x

RECURSIVE GCD(_, _)
GCD(a, b) == IF b = 0 THEN a ELSE GCD(b, a % b)

RECURSIVE Pow2Mod(_, _)
\* 2^e modulo d
Pow2Mod(e, d) == IF e = 0 THEN 1 % d ELSE (2 * Pow2Mod(e - 1, d)) % d

RECURSIVE IsPow2(_)
IsPow2(d) == IF d = 1 THEN TRUE ELSE IF d % 2 = 1 THEN FALSE ELSE IsPow2(d \div 2)

RECURSIVE SeqSum(_)
SeqSum(s) == IF s = <<>> THEN 0 ELSE Head(s) + SeqSum(Tail(s))

(* ------------------------- str.strip / str.upper ----------------------- *)
Whitespace == {" ", "\t"}

\* str.upper() on one character
UpperChar(c) ==
    CASE c = "a" -> "A"
      [] c = "b" -> "B"
      [] c = "c" -> "C"
      [] c = "d" -> "D"
      [] c = "e" -> "E"
      [] c = "f" -> "F"
      [] OTHER -> c

\* the inverse folding, used only to build input tokens
LowerChar(c) ==
    CASE c = "A" -> "a"
      [] c = "B" -> "b"
      [] c = "C" -> "c"
      [] c = "D" -> "d"
      [] c = "E" -> "e"
      [] c = "F" -> "f"
      [] OTHER -> c

RECURSIVE LStrip(_)
LStrip(s) == IF s # <<>> /\ Head(s) \in Whitespace THEN LStrip(Tail(s)) ELSE s

RECURSIVE RStrip(_)
RStrip(s) ==
    IF s # <<>> /\ s[Len(s)] \in Whitespace THEN RStrip(SubSeq(s, 1, Len(s) - 1)) ELSE s

Strip(s) == RStrip(LStrip(s))

Upper(s) == [i \in 1..Len(s) |-> UpperChar(s[i])]

\* a mutant of NormaliseNilai: the token is upper-cased but not stripped
NormaliseNoStrip(raw) == Upper(raw)

\* nilai_huruf = str(row[3]).strip().upper()
NormaliseNilai(raw) == Upper(Strip(raw))

(* ----------------------------- bobot_nilai ----------------------------- *)
\* list(bobot_nilai.keys()), in insertion order
BobotKeys ==
    << <<"A">>, <<"A", "-">>, <<"B", "+">>, <<"B">>, <<"B", "-">>,
       <<"C", "+">>, <<"C">>, <<"D">>, <<"E">> >>

\* the values of bobot_nilai, in hundredths, in the order of BobotKeys
BobotValues == <<400, 375, 350, 300, 275, 250, 200, 100, 0>>

\* nilai_huruf in bobot_nilai
InBobotNilai(nilai_huruf) == \E i \in 1..Len(BobotKeys) : BobotKeys[i] = nilai_huruf

\* bobot_nilai[nilai_huruf], in hundredths
Bobot(nilai_huruf) ==
    BobotValues[CHOOSE i \in 1..Len(BobotKeys) : BobotKeys[i] = nilai_huruf]

(* ------------------------------- round --------------------------------- *)
RECURSIVE Log2Floor(_, _)
\* the k with 2^k <= n/d < 2^(k+1), for n, d > 0
Log2Floor(n, d) ==
    IF n < d THEN Log2Floor(2 * n, d) - 1
    ELSE IF n >= 2 * d THEN Log2Floor(n, 2 * d) + 1
    ELSE 0

\* Whether the double nearest to n/d lies below n/d (n, d > 0, n/d not a
\* double): the 53-bit significand is n * 2^e / d rounded to an integer,
\* e = 52 - Log2Floor(n, d), and it is rounded down when the fraction left
\* over is below one half.
FloatBelow(n, d) ==
    LET g == GCD(n, d)
        dd == d \div g
        nn == n \div g
        e == 52 - Log2Floor(n, d)
        r == ((nn % dd) * Pow2Mod(e, dd)) % dd
    IN 2 * r < dd

\* round(n / d, 2) in hundredths for n >= 0 hundredths and d > 0: the float
\* quotient is the double nearest to n/(100 d), and round() rounds that
\* double correctly, ties (only possible when the double is exact) to even.
Round2Pos(n, d) ==
    LET h == n \div d
        r == n % d
        g == GCD(n, 100 * d)
        exact == IsPow2((100 * d) \div g)
    IN IF 2 * r < d THEN h
       ELSE IF 2 * r > d THEN h + 1
       ELSE IF exact THEN (IF h % 2 = 0 THEN h ELSE h + 1)
       ELSE IF FloatBelow(n, 100 * d) THEN h ELSE h + 1

\* a mutant of Round2Div: the quotient is truncated to two decimals
Round2DivTrunc(n, d) ==
    IF (n < 0) = (d < 0) THEN Abs(n) \div Abs(d) ELSE 0 - (Abs(n) \div Abs(d))

\* round(total_bobot / total_sks, 2): n hundredths divided by the integer d # 0
Round2Div(n, d) ==
    IF (n < 0) = (d < 0) \/ n = 0 THEN Round2Pos(Abs(n), Abs(d))
    ELSE 0 - Round2Pos(Abs(n), Abs(d))

(* ----------------------------- exceptions ------------------------------ *)
NoExc == [type |-> "none", status_code |-> 0, detail |-> [kind |-> "none"]]

\* HTTPException(status_code=..., detail=...)
HTTPException(code, det) == [type |-> "HTTPException", status_code |-> code, detail |-> det]

\* any other exception (psycopg2 errors, ZeroDivisionError, IndexError)
OtherException(name) == [type |-> name, status_code |-> 0, detail |-> [kind |-> name]]

(* ------------------------ get_ips: the computation --------------------- *)
\* a mutant of RowsEmpty: the "not rows" test never fires
RowsEmptyNever(rs) == FALSE

\* not rows
RowsEmpty(rs) == Len(rs) = 0

\* a mutant of GradeRejected: an unknown grade is let through
GradeRejectedNever(nilai_huruf) == FALSE

\* nilai_huruf not in bobot_nilai
GradeRejected(nilai_huruf) == ~InBobotNilai(nilai_huruf)

\* a mutant of ZeroGuard: the total_sks == 0 test is missing
ZeroGuardNever(t) == FALSE

\* total_sks == 0
ZeroGuard(t) == t = 0

\* bobot * sks
RowBobot(bobot, sks) == bobot * sks

\* a mutant of DetailAppend: the record is put in front
DetailPrepend(detail, rec) == <<rec>> \o detail

\* detail.append({...})
DetailAppend(detail, rec) == Append(detail, rec)

\* the locals before the loop
LoopStart == [total_sks |-> 0, total_bobot |-> 0, detail |-> <<>>, exc |-> NoExc]

\* one iteration of "for row in rows"
LoopBody(acc, row) ==
    LET nilai_huruf == NormaliseNilai(row.nilai)
        sks == row.sks
    IN IF GradeRejected(nilai_huruf)
       THEN [acc EXCEPT !.exc =
                HTTPException(400, [kind |-> "InvalidGrade", nilai |-> nilai_huruf,
                                    valid |-> BobotKeys])]
       ELSE IF ~InBobotNilai(nilai_huruf)
       THEN [acc EXCEPT !.exc = OtherException("KeyError")]
       ELSE LET bobot == Bobot(nilai_huruf)
            IN [total_sks |-> acc.total_sks + sks,
                total_bobot |-> acc.total_bobot + RowBobot(bobot, sks),
                detail |-> DetailAppend(acc.detail,
                              [nilai |-> nilai_huruf, sks |-> sks, bobot |-> bobot,
                               bobot_x_sks |-> bobot * sks]),
                exc |-> NoExc]

RECURSIVE Loop(_, _, _)
\* the for loop over rows from index i on; a raise leaves the loop
Loop(acc, rs, i) ==
    IF i > Len(rs) \/ acc.exc.type # "none" THEN acc
    ELSE Loop(LoopBody(acc, rs[i]), rs, i + 1)

\* What the body of get_ips after the with block ends in: the locals, the
\* exception raised (if any) and the value returned (if any).
IpsBody(rs) ==
    IF RowsEmpty(rs)
    THEN [LoopStart EXCEPT !.exc = HTTPException(404, [kind |-> "NotFound"])]
         @@ [result |-> [kind |-> "none"]]
    ELSE IF Len(rs) = 0
    THEN [LoopStart EXCEPT !.exc = OtherException("IndexError")]
         @@ [result |-> [kind |-> "none"]]
    ELSE LET acc == Loop(LoopStart, rs, 1)
         IN IF acc.exc.type # "none" THEN acc @@ [result |-> [kind |-> "none"]]
            ELSE IF ZeroGuard(acc.total_sks)
            THEN [acc EXCEPT !.exc = HTTPException(400, [kind |-> "ZeroCreditHours"])]
                 @@ [result |-> [kind |-> "none"]]
            ELSE IF acc.total_sks = 0
            THEN [acc EXCEPT !.exc = OtherException("ZeroDivisionError")]
                 @@ [result |-> [kind |-> "none"]]
            ELSE acc @@ [result |->
                    [kind |-> "ips",
                     nim |-> rs[1].nim, nama |-> rs[1].nama, jurusan |-> rs[1].jurusan,
                     total_sks |-> acc.total_sks,
                     total_bobot |-> acc.total_bobot,
                     ips |-> Round2Div(acc.total_bobot, acc.total_sks),
                     detail_perhitungan |-> acc.detail]]

\* a mutant of IpsExcept: HTTPException is not re-raised but wrapped too
IpsExceptWrapAll(exc) == 500

\* the except clauses of get_ips: the status the caller sees for exc
IpsExcept(exc) == IF exc.type = "HTTPException" THEN exc.status_code ELSE 500

\* the except clause of get_mahasiswas
MahasiswaExcept(exc) == 500

\* the list get_mahasiswas returns
MahasiswaList(rs) ==
    [i \in 1..Len(rs) |->
        [nim |-> rs[i][1], nama |-> rs[i][2], jurusan |-> rs[i][3], angkatan |-> rs[i][4]]]

\* What a call of get_ips answers once the with block has been left
\* normally: the HTTP status, the JSON body and the locals at that point.
IpsOutcome(rs) ==
    LET b == IpsBody(rs)
    IN IF b.exc.type # "none"
       THEN [status |-> IpsExcept(b.exc),
             body |-> [kind |-> "error", detail |-> b.exc.detail],
             total_sks |-> b.total_sks, total_bobot |-> b.total_bobot,
             detail |-> b.detail]
       ELSE [status |-> 200, body |-> b.result,
             total_sks |-> b.total_sks, total_bobot |-> b.total_bobot,
             detail |-> b.detail]

(* ------------------------------ the inputs ----------------------------- *)
\* the nim query parameter
Nims == {"22002", "22003"}

\* the mahasiswa relation: (nim, nama, jurusan, angkatan)
Students ==
    { <<"22002", "Budi", "Informatika", 2022>>,
      <<"22003", "Citra", "Sistem Informasi", 2022>> }

StudentOf(n) == CHOOSE t \in Students : t[1] = n

\* krs.nilai values as stored
GradeTokens ==
    { <<"A">>, <<"B", "+">>, <<" ", "b", "+", " ">>, <<"a", "-">>, <<"C">>, <<"F">> }

\* mk.sks values as stored: the schema is not part of the repository, so
\* zero and a negative value are included
SksValues == {0 - 1} \cup (0..MaxSks)

\* one row of the join for student n: row[0..4] = nim, nama, jurusan, nilai, sks
JoinRow(n, tok, k) ==
    [nim |-> n, nama |-> StudentOf(n)[2], jurusan |-> StudentOf(n)[3],
     nilai |-> tok, sks |-> k]

JoinRows(n) == {JoinRow(n, tok, k) : tok \in GradeTokens, k \in SksValues}

\* every result the join can give for student n
JoinResults(n) == UNION {[1..len -> JoinRows(n)] : len \in 0..MaxRows}

\* every result of SELECT * FROM mahasiswa
MahasiswaResults ==
    {<<>>} \cup {<<t>> : t \in Students}
           \cup {<<t, u>> : <<t, u>> \in {p \in Students \X Students : p[1] # p[2]}}

(* ------------------------------- state --------------------------------- *)
VARIABLES
    pc,          \* where the request is: idle, connect, execute, fetchall,
                 \* commit, rollback, close, body, done (pair model: pair, pair2, pairdone)
    handler,     \* "ips" or "mahasiswa"
    nim,         \* the query parameter of get_ips
    conn,        \* the connection: none, open, closed
    calls,       \* how often each psycopg2 operation was called in this request
    committed,   \* conn.commit() returned
    rolledback,  \* conn.rollback() returned
    pending,     \* the exception travelling out of the with block
    rows,        \* cursor.fetchall()
    locals,      \* total_sks, total_bobot, detail of get_ips
    status,      \* the HTTP status answered, 0 before the answer
    body,        \* the JSON body answered
    twin,        \* pair model: the second row sequence
    twinOut      \* pair model: the answer to the second row sequence

vars == <<pc, handler, nim, conn, calls, committed, rolledback, pending, rows,
          locals, status, body, twin, twinOut>>

NoCalls == [connect |-> 0, execute |-> 0, fetchall |-> 0, commit |-> 0,
            rollback |-> 0, close |-> 0]

NoLocals == [total_sks |-> 0, total_bobot |-> 0, detail |-> <<>>]

NoBody == [kind |-> "none"]

NoOut == [status |-> 0, body |-> NoBody]

Called(op) == [calls EXCEPT ![op] = @ + 1]

\* the exception a failing psycopg2 operation raises
StorageError(op) ==
    [type |-> "psycopg2.Error", status_code |-> 0,
     detail |-> [kind |-> "psycopg2.Error", op |-> op]]

Init ==
    /\ pc = "idle"
    /\ handler = "none"
    /\ nim = "none"
    /\ conn = "none"
    /\ calls = NoCalls
    /\ committed = FALSE
    /\ rolledback = FALSE
    /\ pending = NoExc
    /\ rows = <<>>
    /\ locals = NoLocals
    /\ status = 0
    /\ body = NoBody
    /\ twin = <<>>
    /\ twinOut = NoOut

(* --------------------------- get_db_connection ------------------------- *)
\* a mutant of AfterYield: the with block is left without conn.commit()
AfterYieldNoCommit == "close"

\* after "yield conn" returns normally: conn.commit()
AfterYield == "commit"

\* "except Exception as e": conn.rollback()
AfterRaise == "rollback"

\* a mutant of CloseConn: the finally clause does not close
CloseConnLeak(c) == c

\* "finally": conn.close()
CloseConn(c) == "closed"

\* the except clause of the handler that is running
HandlerExcept(exc) ==
    IF handler = "ips" THEN IpsExcept(exc) ELSE MahasiswaExcept(exc)

ErrorBody(exc) == [kind |-> "error", detail |-> exc.detail]

(* ------------------------------- actions ------------------------------- *)
\* a request arrives: GET /api/acad/ips?nim=n or GET /api/acad/mahasiswa
Request(h, n) ==
    /\ pc \in {"idle", "done"}
    /\ pc' = "connect"
    /\ handler' = h
    /\ nim' = n
    /\ conn' = "none"
    /\ calls' = NoCalls
    /\ committed' = FALSE
    /\ rolledback' = FALSE
    /\ pending' = NoExc
    /\ rows' = <<>>
    /\ locals' = NoLocals
    /\ status' = 0
    /\ body' = NoBody
    /\ UNCHANGED <<twin, twinOut>>

\* psycopg2.connect(**DB_CONFIG) returns
ConnectOk ==
    /\ pc = "connect"
    /\ calls' = Called("connect")
    /\ conn' = "open"
    /\ pc' = "execute"
    /\ UNCHANGED <<handler, nim, committed, rolledback, pending, rows, locals,
                   status, body, twin, twinOut>>

\* psycopg2.connect raises: nothing was opened, the handler's except clause answers
ConnectFail ==
    /\ pc = "connect"
    /\ calls' = Called("connect")
    /\ pending' = StorageError("connect")
    /\ status' = HandlerExcept(StorageError("connect"))
    /\ body' = ErrorBody(StorageError("connect"))
    /\ pc' = "done"
    /\ UNCHANGED <<handler, nim, conn, committed, rolledback, rows, locals,
                   twin, twinOut>>

\* cursor.execute(query) returns
ExecuteOk ==
    /\ pc = "execute"
    /\ calls' = Called("execute")
    /\ pc' = "fetchall"
    /\ UNCHANGED <<handler, nim, conn, committed, rolledback, pending, rows,
                   locals, status, body, twin, twinOut>>

\* cursor.execute raises inside the with block
ExecuteFail ==
    /\ pc = "execute"
    /\ calls' = Called("execute")
    /\ pending' = StorageError("execute")
    /\ pc' = AfterRaise
    /\ UNCHANGED <<handler, nim, conn, committed, rolledback, rows, locals,
                   status, body, twin, twinOut>>

\* rows = cursor.fetchall(); the with block ends
FetchOk ==
    /\ pc = "fetchall"
    /\ calls' = Called("fetchall")
    /\ \E rs \in (IF handler = "ips" THEN JoinResults(nim) ELSE MahasiswaResults) :
          rows' = rs
    /\ pc' = AfterYield
    /\ UNCHANGED <<handler, nim, conn, committed, rolledback, pending, locals,
                   status, body, twin, twinOut>>

\* cursor.fetchall raises inside the with block
FetchFail ==
    /\ pc = "fetchall"
    /\ calls' = Called("fetchall")
    /\ pending' = StorageError("fetchall")
    /\ pc' = AfterRaise
    /\ UNCHANGED <<handler, nim, conn, committed, rolledback, rows, locals,
                   status, body, twin, twinOut>>

\* conn.commit() returns
CommitOk ==
    /\ pc = "commit"
    /\ calls' = Called("commit")
    /\ committed' = TRUE
    /\ pc' = "close"
    /\ UNCHANGED <<handler, nim, conn, rolledback, pending, rows, locals,
                   status, body, twin, twinOut>>

\* conn.commit() raises: it is inside the try, so the except clause runs
CommitFail ==
    /\ pc = "commit"
    /\ calls' = Called("commit")
    /\ pending' = StorageError("commit")
    /\ pc' = AfterRaise
    /\ UNCHANGED <<handler, nim, conn, committed, rolledback, rows, locals,
                   status, body, twin, twinOut>>

\* conn.rollback() returns; "raise e" follows
RollbackOk ==
    /\ pc = "rollback"
    /\ calls' = Called("rollback")
    /\ rolledback' = TRUE
    /\ pc' = "close"
    /\ UNCHANGED <<handler, nim, conn, committed, pending, rows, locals,
                   status, body, twin, twinOut>>

\* conn.rollback() raises; the finally clause still runs
RollbackFail ==
    /\ pc = "rollback"
    /\ calls' = Called("rollback")
    /\ pending' = StorageError("rollback")
    /\ pc' = "close"
    /\ UNCHANGED <<handler, nim, conn, committed, rolledback, rows, locals,
                   status, body, twin, twinOut>>

\* the finally clause, then what follows the with statement: the pending
\* exception reaches the handler's except clause; get_mahasiswas returns
\* its list; get_ips goes on to its computation
Close ==
    /\ pc = "close"
    /\ calls' = Called("close")
    /\ conn' = CloseConn(conn)
    /\ IF pending.type # "none"
       THEN /\ status' = HandlerExcept(pending)
            /\ body' = ErrorBody(pending)
            /\ pc' = "done"
       ELSE IF handler = "mahasiswa"
       THEN /\ status' = 200
            /\ body' = [kind |-> "mahasiswa", list |-> MahasiswaList(rows)]
            /\ pc' = "done"
       ELSE /\ pc' = "body"
            /\ UNCHANGED <<status, body>>
    /\ UNCHANGED <<handler, nim, committed, rolledback, pending, rows, locals,
                   twin, twinOut>>

\* get_ips from "if not rows" to its return or raise
Body ==
    /\ pc = "body"
    /\ LET out == IpsOutcome(rows)
       IN /\ status' = out.status
          /\ body' = out.body
          /\ locals' = [total_sks |-> out.total_sks, total_bobot |-> out.total_bobot,
                        detail |-> out.detail]
    /\ pc' = "done"
    /\ UNCHANGED <<handler, nim, conn, calls, committed, rolledback, pending,
                   rows, twin, twinOut>>

Next ==
    \/ \E n \in Nims : Request("ips", n)
    \/ Request("mahasiswa", "none")
    \/ ConnectOk
    \/ ConnectFail
    \/ ExecuteOk
    \/ ExecuteFail
    \/ FetchOk
    \/ FetchFail
    \/ CommitOk
    \/ CommitFail
    \/ RollbackOk
    \/ RollbackFail
    \/ Close
    \/ Body

Spec == Init /\ [][Next]_vars

(* ------------------------------ pair model ----------------------------- *)
(* get_ips applied to two row sequences that differ only in the letter     *)
(* case and the surrounding whitespace of their grade tokens.              *)
Cores == { <<"A">>, <<"B", "+">>, <<"E">>, <<"F">> }

PairSks == {0, 2}

\* n whitespace characters
PadSeq(n) == [i \in 1..n |-> IF i % 2 = 1 THEN " " ELSE "\t"]

Lower(s) == [i \in 1..Len(s) |-> LowerChar(s[i])]

\* a way of writing a token: its case, and the padding on either side
Dressings == [lower : BOOLEAN, l : 0..MaxPad, r : 0..MaxPad]

Dress(core, d) ==
    PadSeq(d.l) \o (IF d.lower THEN Lower(core) ELSE core) \o PadSeq(d.r)

PairShapes == UNION {[1..len -> Cores \X PairSks] : len \in 0..MaxPairRows}

DressRows(shape, d) ==
    [i \in 1..Len(shape) |-> JoinRow("22002", Dress(shape[i][1], d), shape[i][2])]

InitPair ==
    /\ pc = "pair"
    /\ handler = "ips"
    /\ nim = "22002"
    /\ conn = "none"
    /\ calls = NoCalls
    /\ committed = FALSE
    /\ rolledback = FALSE
    /\ pending = NoExc
    /\ \E shape \in PairShapes : \E d1 \in Dressings : \E d2 \in Dressings :
          /\ rows = DressRows(shape, d1)
          /\ twin = DressRows(shape, d2)
    /\ locals = NoLocals
    /\ status = 0
    /\ body = NoBody
    /\ twinOut = NoOut

\* get_ips on the first sequence
RunRows ==
    /\ pc = "pair"
    /\ LET out == IpsOutcome(rows)
       IN /\ status' = out.status
          /\ body' = out.body
          /\ locals' = [total_sks |-> out.total_sks, total_bobot |-> out.total_bobot,
                        detail |-> out.detail]
    /\ pc' = "pair2"
    /\ UNCHANGED <<handler, nim, conn, calls, committed, rolledback, pending,
                   rows, twin, twinOut>>

\* get_ips on the second sequence
RunTwin ==
    /\ pc = "pair2"
    /\ LET out == IpsOutcome(twin)
       IN twinOut' = [status |-> out.status, body |-> out.body]
    /\ pc' = "pairdone"
    /\ UNCHANGED <<handler, nim, conn, calls, committed, rolledback, pending,
                   rows, locals, status, body, twin>>

NextPair ==
    \/ RunRows
    \/ RunTwin

SpecPair == InitPair /\ [][NextPair]_vars

(* ------------------------------ properties ----------------------------- *)
\* the request is answered
Done == pc = "done"

\* get_ips left its with block normally and ran its computation
BodyRan == Done /\ handler = "ips" /\ pending.type = "none" /\ conn # "none"

Valid(tok) == InBobotNilai(NormaliseNilai(tok))

AllValid(rs) == \A i \in 1..Len(rs) : Valid(rs[i].nilai)

SumSks(rs) == SeqSum([i \in 1..Len(rs) |-> rs[i].sks])

SumBobot(rs) ==
    SeqSum([i \in 1..Len(rs) |-> Bobot(NormaliseNilai(rs[i].nilai)) * rs[i].sks])

\* h hundredths is within half a hundredth of n hundredths / d, d > 0
NearestHundredth(h, n, d) == 2 * Abs(h * d - n) <= d

\* the grades and credit hours of the rows
GradesAndSks(rs) == [i \in 1..Len(rs) |-> <<rs[i].nilai, rs[i].sks>>]

\* C1: rows that are non-empty, all of valid grade and of positive credit
\* hours give 200 with total_sks the sum of the credit hours, total_bobot
\* the sum of weight x credit hours, and ips their quotient rounded to two
\* decimals; (A,3),(B+,4) give 7, 26.0 and 3.71.
C1_WeightedAverage ==
    (BodyRan /\ rows # <<>> /\ AllValid(rows) /\ \A i \in 1..Len(rows) : rows[i].sks > 0)
    => /\ status = 200
       /\ body.kind = "ips"
       /\ body.total_sks = SumSks(rows)
       /\ body.total_bobot = SumBobot(rows)
       /\ locals.total_bobot = SumBobot(rows)
       /\ NearestHundredth(body.ips, SumBobot(rows), SumSks(rows))
       /\ (GradesAndSks(rows) = << <<(<<"A">>), 3>>, <<(<<"B", "+">>), 4>> >>
             => body.total_sks = 7 /\ body.total_bobot = 2600 /\ body.ips = 371)

C1_Witness ==
    /\ BodyRan
    /\ GradesAndSks(rows) = << <<(<<"A">>), 3>>, <<(<<"B", "+">>), 4>> >>
    /\ status = 200
    /\ body.ips = 371

\* the index of the first row whose normalised grade is not in the table
FirstInvalid(rs) ==
    CHOOSE i \in 1..Len(rs) :
        /\ ~Valid(rs[i].nilai)
        /\ \A j \in 1..(i - 1) : Valid(rs[j].nilai)

\* C2: a row of unknown grade gives 400 InvalidGrade naming the first such
\* normalised token and the accepted set, the loop having accumulated the
\* rows before it and none after, whatever the credit hours are.
C2_InvalidGrade ==
    (BodyRan /\ ~AllValid(rows))
    => LET f == FirstInvalid(rows)
       IN /\ status = 400
          /\ body = [kind |-> "error",
                     detail |-> [kind |-> "InvalidGrade",
                                 nilai |-> NormaliseNilai(rows[f].nilai),
                                 valid |-> BobotKeys]]
          /\ Len(locals.detail) = f - 1
          /\ locals.total_sks = SumSks(SubSeq(rows, 1, f - 1))
          /\ locals.total_bobot = SumBobot(SubSeq(rows, 1, f - 1))

C2_Witness ==
    /\ BodyRan
    /\ Len(rows) = 2
    /\ GradesAndSks(rows) = << <<(<<"C">>), 0>>, <<(<<"F">>), 0>> >>
    /\ status = 400
    /\ body.detail.kind = "InvalidGrade"
    /\ Len(locals.detail) = 1

\* C3: rows that are non-empty, all of valid grade and whose credit hours
\* sum to zero give 400 ZeroCreditHours, not a division error.
C3_ZeroCreditHours ==
    (BodyRan /\ rows # <<>> /\ AllValid(rows) /\ SumSks(rows) = 0)
    => /\ status = 400
       /\ body = [kind |-> "error", detail |-> [kind |-> "ZeroCreditHours"]]

C3_Witness ==
    /\ BodyRan
    /\ GradesAndSks(rows) = << <<(<<"C">>), 0>> >>
    /\ status = 400
    /\ body.detail.kind = "ZeroCreditHours"

\* C4: an empty join result gives 404 NotFound and no result, and 404 is
\* answered only for an empty join result.
C4_NotFound ==
    /\ (BodyRan /\ rows = <<>>)
         => status = 404 /\ body = [kind |-> "error", detail |-> [kind |-> "NotFound"]]
    /\ (Done /\ status = 404) => (BodyRan /\ rows = <<>>)

C4_Witness == BodyRan /\ rows = <<>> /\ status = 404

\* C5: two row sequences that differ only in the case and the surrounding
\* whitespace of their grade tokens get the same answer; " b+ " and "B+"
\* both get weight 3.5.
C5_SameOutcome ==
    pc = "pairdone"
    => /\ twinOut = [status |-> status, body |-> body]
       /\ status = 200 =>
            \A i \in 1..Len(rows) :
                rows[i].nilai \in {<<" ", "b", "+", " ">>, <<"B", "+">>}
                => body.detail_perhitungan[i].bobot = 350

C5_Witness ==
    /\ pc = "pairdone"
    /\ Len(rows) = 1
    /\ rows[1].nilai = <<" ", "b", "+", " ">>
    /\ twin[1].nilai = <<"B", "+">>
    /\ status = 200
    /\ twinOut.status = 200

\* a psycopg2 operation raised in this request
StorageFailed == pending.type = "psycopg2.Error"

Ops == {"connect", "execute", "fetchall", "commit", "rollback", "close"}

\* C6: a storage failure ends the request with 500 and an error body after
\* one attempt of each operation; an HTTPException raised by get_ips
\* reaches the caller with its own status and detail; every request ends
\* in one of 200, 400, 404, 500.
C6_StatusMapping ==
    /\ \A op \in Ops : calls[op] <= 1
    /\ Done => status \in {200, 400, 404, 500}
    /\ (Done /\ StorageFailed)
         => status = 500 /\ body = [kind |-> "error", detail |-> pending.detail]
    /\ (BodyRan /\ IpsBody(rows).exc.type = "HTTPException")
         => /\ status = IpsBody(rows).exc.status_code
            /\ status \in {400, 404}
            /\ body = [kind |-> "error", detail |-> IpsBody(rows).exc.detail]

C6_Witness ==
    /\ Done
    /\ handler = "ips"
    /\ StorageFailed
    /\ pending.detail.op = "commit"
    /\ rows # <<>>
    /\ status = 500
    /\ body.kind = "error"

\* C7 as claimed: a commit happens only in a request answered 200, and a
\* request answered 404 or 400 is rolled back and not committed.
C7_CommitOnlyOnSuccess ==
    Done => /\ committed => status = 200
            /\ status \in {400, 404} => (calls.rollback = 1 /\ ~committed)

\* C7 as amended: requests answered 200, 404 or 400 are committed and not
\* rolled back (get_ips commits when its with block ends, before it looks
\* at the rows); a rollback is attempted only after execute, fetchall or
\* commit raised, and then the answer is 500 and nothing was committed; in
\* get_mahasiswas a commit happens only in a request answered 200.
C7_CommitBeforeBody ==
    Done => /\ status \in {200, 400, 404} => (committed /\ calls.rollback = 0)
            /\ calls.rollback = 1
                 => /\ status = 500
                    /\ ~committed
                    /\ StorageFailed
            /\ (StorageFailed /\ conn # "none") => calls.rollback = 1
            /\ (handler = "mahasiswa" /\ committed) => status = 200

C7_Witness ==
    /\ BodyRan
    /\ status = 400
    /\ committed
    /\ calls.rollback = 0

\* C8: a request opens at most one connection; an opened connection is
\* closed exactly once, before the answer, on every path; none stays open.
C8_ConnectionScope ==
    /\ calls.connect <= 1
    /\ calls.close <= 1
    /\ status # 0 => conn # "open"
    /\ Done => calls.close = (IF conn = "none" THEN 0 ELSE 1)
    /\ conn = "closed" => calls.close = 1
    /\ conn = "none" => calls.close = 0

C8_Witness ==
    /\ Done
    /\ StorageFailed
    /\ pending.detail.op = "rollback"
    /\ conn = "closed"
    /\ calls.close = 1

\* C9: on success there is one detail record per row, in retrieval order,
\* holding the normalised grade, the credit hours, the weight and their
\* product; the totals are the sums over the records; nim, nama and
\* jurusan are those of the first row.
C9_Detail ==
    (BodyRan /\ status = 200)
    => LET d == body.detail_perhitungan
       IN /\ Len(d) = Len(rows)
          /\ \A i \in 1..Len(rows) :
                d[i] = [nilai |-> NormaliseNilai(rows[i].nilai),
                        sks |-> rows[i].sks,
                        bobot |-> Bobot(NormaliseNilai(rows[i].nilai)),
                        bobot_x_sks |-> Bobot(NormaliseNilai(rows[i].nilai)) * rows[i].sks]
          /\ body.total_sks = SeqSum([i \in 1..Len(d) |-> d[i].sks])
          /\ body.total_bobot = SeqSum([i \in 1..Len(d) |-> d[i].bobot_x_sks])
          /\ body.nim = rows[1].nim
          /\ body.nama = rows[1].nama
          /\ body.jurusan = rows[1].jurusan

C9_Witness ==
    /\ BodyRan
    /\ status = 200
    /\ Len(rows) = 2
    /\ rows[1].nilai = <<" ", "b", "+", " ">>
    /\ rows[2].nilai = <<"a", "-">>
    /\ rows[1].sks # rows[2].sks

\* C10: a 200 answer of get_ips has total_sks > 0, whatever integers the
\* credit hours are.
C10_PositiveTotal ==
    (Done /\ handler = "ips" /\ status = 200) => body.total_sks > 0
====
